---- MODULE Spec2Model ----
(***************************************************************************)
(* Community voting application (src/app.py): a Streamlit front end over   *)
(* four PostgreSQL tables (households, topics, votes, config).             *)
(*                                                                         *)
(* The database is the shared state.  Every rerun of voter_page is a       *)
(* sequence of separate queries (households, config 'voting_open', config  *)
(* 'end_time', topics, votes) followed by the loop that may call           *)
(* record_vote_to_db; each query is one step of a session, so that runs    *)
(* of two browser sessions and the administrator's operations interleave   *)
(* between any two queries.  The queries that read are taken to succeed;   *)
(* the writes (record_vote_to_db, to_sql) can fail.  A run without the     *)
(* ?unit= parameter returns at line 240 before any query and has no step.  *)
(***************************************************************************)
EXTENDS Integers, Sequences, FiniteSets, TLC

\* ------------------------------------------------------------------ bounds
MaxTime == 2        \* the clock runs 0..MaxTime
MaxTopics == 1      \* rows of an uploaded topics.csv / of the seeded topics table

Codes == {"A", "B"}                  \* household codes that occur in uploads and URLs
NULL == "NULL"                       \* SQL NULL / Python None

\* st.radio options of the vote form (line 292)
VoteOptions == {"agree", "disagree"}
\* st.selectbox options of the deadline form (line 417), in units of 5 minutes
DeadlineOptions == {1, 2, 3, 4, 5, 6}

VARIABLES
    households,     \* table households: the set of household codes (column 戶號)
    topics,         \* table topics: [hasId |-> the table has an id column, rows |-> <<[id, is_active]>>]
    votes,          \* table votes: set of rows [unit, topic_id, result, time]
    config,         \* table config: [voting_open, end_time]; a key that is absent
                    \* holds NULL (voting_open) or <<>> (end_time, else <<time>>)
    clock,          \* get_taipei_time()
    pc,             \* per session: position in voter_page, or the outcome of the last run
    unit,           \* per session: the ?unit= query parameter
    active,         \* per session: local active_topics (a topics table value)
    voted           \* per session: local voted_topic_ids

\* browser sessions on the voter page
Sessions == DOMAIN pc

vars == <<households, topics, votes, config, clock, pc, unit, active, voted>>

db == <<households, topics, votes, config>>
locals == <<pc, unit, active, voted>>

\* ------------------------------------------------------------- the schema
EmptyTopics == [hasId |-> TRUE, rows |-> <<>>]

\* A topics table as init_db_tables declares it (id SERIAL PRIMARY KEY,
\* is_active BOOLEAN DEFAULT TRUE): ids 1..k in insertion order.
RECURSIVE SerialRows(_)
SerialRows(flags) ==
    IF flags = <<>> THEN <<>>
    ELSE Append(SerialRows(SubSeq(flags, 1, Len(flags) - 1)),
                [id |-> Len(flags), is_active |-> flags[Len(flags)]])

\* CREATE TABLE IF NOT EXISTS keeps a topics table that is already in the
\* database: the process starts on an empty table or on rows inserted there
\* with the declared schema.
SeedTopics ==
    { [hasId |-> TRUE, rows |-> SerialRows(f)] :
        f \in UNION { [1..k -> BOOLEAN] : k \in 0..MaxTopics } }

Terminal == {"idle", "InvalidHousehold", "VotingClosed", "DeadlineExpired",
             "NoTopics", "KeyError", "AlreadyVoted", "Accepted", "Failed"}

\* The state after init_db_tables, with the given browser sessions open and
\* the wall clock at t0.
InitWith(sessions, t0) ==
    /\ households = {}
    /\ topics \in SeedTopics
    /\ votes = {}
    /\ config = [voting_open |-> NULL, end_time |-> <<>>]
    /\ clock = t0
    /\ pc = [s \in sessions |-> "idle"]
    /\ unit = [s \in sessions |-> NULL]
    /\ active = [s \in sessions |-> EmptyTopics]
    /\ voted = [s \in sessions |-> {}]

\* One voter at a time: every run of voter_page ends before the next begins.
Init == InitWith({1}, 0)

\* Two browser sessions whose runs interleave query by query.  The clock
\* starts one tick before MaxTime, which bounds the timestamps of the ballots.
InitConc == InitWith({1, 2}, MaxTime - 1)

\* ------------------------------------------------------------------ clock
Tick ==
    /\ clock < MaxTime
    /\ clock' = clock + 1
    /\ UNCHANGED <<db, locals>>

\* ------------------------------------------------- config table (164-185)
\* load_config(key): SELECT value FROM config WHERE key = :key, None when absent
load_config(key) == config[key]

\* save_config(key, value): INSERT ... ON CONFLICT (key) DO UPDATE SET value
save_config(key, value) == config' = [config EXCEPT ![key] = value]

\* admin_dashboard, "開啟投票" button
OpenVoting ==
    /\ save_config("voting_open", "True")
    /\ UNCHANGED <<households, topics, votes, clock, locals>>

\* admin_dashboard, "停止投票" button
CloseVoting ==
    /\ save_config("voting_open", "False")
    /\ UNCHANGED <<households, topics, votes, clock, locals>>

\* admin_dashboard, "儲存截止時間" button: end_time = now + option, stored as
\* a "%Y-%m-%d %H:%M:%S %z" string (the clock counts in the selectbox's unit)
SaveEndTime(option) ==
    /\ clock + option <= MaxTime
    /\ save_config("end_time", <<clock + option>>)
    /\ UNCHANGED <<households, topics, votes, clock, locals>>

\* ------------------------------------------------------ uploads (113-145)
\* What can happen inside to_sql(if_exists='replace'), which drops the table,
\* creates it from the frame and inserts the rows.
\*   "none"     : all three succeed
\*   "rollback" : an exception with the old table still in place (no
\*                connection, or a pandas that runs the three statements in
\*                one transaction)
\*   "emptied"  : an exception in the insert after the drop and the create
\*                were committed (a pandas that commits them on their own)
UploadFaults == {"none", "rollback", "emptied"}

\* An uploaded households.csv: the columns it has (戶號 "code", 區分比例
\* "share") and the unique codes of its rows.  A file that lacks a column
\* is taken with all the codes: its rows are never looked at.  (The table
\* written by to_sql has no primary key; files that repeat a code are not
\* among the inputs.)
HouseholdFiles ==
    [cols : {{"code", "share"}}, codes : SUBSET Codes]
        \cup [cols : {{"code"}, {"share"}}, codes : {Codes}]

\* Faulty variant: to_sql(if_exists='append'): the rows are added to the old ones.
save_households_append(df, fault) ==
    IF ~ ({"code", "share"} \subseteq df.cols) THEN <<FALSE, households>>
    ELSE CASE fault = "none" -> <<TRUE, households \cup df.codes>>
           [] fault = "rollback" -> <<FALSE, households>>
           [] fault = "emptied" -> <<FALSE, {}>>

\* save_households_to_db(df): both columns are required; to_sql(if_exists=
\* 'replace') drops the table and writes the rows of df.  The result is
\* <<return value, the households table afterwards>>.
save_households_to_db(df, fault) ==
    IF ~ ({"code", "share"} \subseteq df.cols) THEN <<FALSE, households>>
    ELSE CASE fault = "none" -> <<TRUE, df.codes>>
           [] fault = "rollback" -> <<FALSE, households>>
           [] fault = "emptied" -> <<FALSE, {}>>

\* admin_dashboard, households uploader
UploadHouseholds(df, fault) ==
    /\ households' = save_households_to_db(df, fault)[2]
    /\ UNCHANGED <<topics, votes, config, clock, locals>>

\* An uploaded topics.csv: whether it has the 議題 column, and its row count.
TopicFiles == [hasText : {TRUE}, n : 0..MaxTopics] \cup [hasText : {FALSE}, n : {MaxTopics}]

\* save_topics_to_db(df): df[['議題']] plus is_active = True, written with
\* to_sql(if_exists='replace', index=False): the table is dropped and created
\* again with exactly the columns of the frame, 議題 and is_active; the id
\* column of init_db_tables is gone (id 0 stands for "no such column").
save_topics_to_db(df, fault) ==
    IF ~ df.hasText THEN <<FALSE, topics>>
    ELSE CASE fault = "none" ->
                <<TRUE, [hasId |-> FALSE,
                         rows |-> [i \in 1..df.n |-> [id |-> 0, is_active |-> TRUE]]]>>
           [] fault = "rollback" -> <<FALSE, topics>>
           [] fault = "emptied" -> <<FALSE, [hasId |-> FALSE, rows |-> <<>>]>>

\* admin_dashboard, topics uploader
UploadTopics(df, fault) ==
    /\ topics' = save_topics_to_db(df, fault)[2]
    /\ UNCHANGED <<households, votes, config, clock, locals>>

\* --------------------------------------------------- votes table (147-162)
\* Faulty variant: the INSERT without the conflict clause and without the UNIQUE
\* constraint: every submission adds a row.
PlainInsert(table, row) == table \cup {row}

\* INSERT INTO votes ... ON CONFLICT (戶號, topic_id) DO UPDATE SET 投票結果,
\* 投票時間: the row of the same (戶號, topic_id) is overwritten, else added.
Upsert(table, row) ==
    { v \in table : ~ (v.unit = row.unit /\ v.topic_id = row.topic_id) } \cup {row}

\* What can happen inside record_vote_to_db's "with get_db_connection()".
\*   "none"    : the statement and the commit succeed
\*   "connect" : engine.connect() raises; get_db_connection catches it and
\*               ends without yielding, contextlib raises RuntimeError,
\*               record_vote_to_db's "except Exception" returns False
\*   "execute" : conn.execute or conn.commit raises SQLAlchemyError inside
\*               the with block; get_db_connection catches it at the yield,
\*               rolls back and returns, which suppresses the exception: the
\*               with block ends normally and "return True" runs
Faults == {"none", "connect", "execute"}

\* record_vote_to_db(unit_id, topic_id, vote_result, vote_time):
\* <<return value, the votes table afterwards>>
record_vote_to_db(unit_id, topic_id, vote_result, vote_time, fault) ==
    CASE fault = "none" ->
            <<TRUE, Upsert(votes, [unit |-> unit_id, topic_id |-> topic_id,
                                   result |-> vote_result, time |-> vote_time])>>
      [] fault = "connect" -> <<FALSE, votes>>
      [] fault = "execute" -> <<TRUE, votes>>

\* ------------------------------------------------------ voter_page (233-297)
\* The locals of voter_page (unit, active_topics, voted_topic_ids) live for
\* one run of the script: a run that returns leaves only what it displayed.
Return(s, outcome) ==
    /\ pc' = [pc EXCEPT ![s] = outcome]
    /\ unit' = [unit EXCEPT ![s] = NULL]
    /\ active' = [active EXCEPT ![s] = EmptyTopics]
    /\ voted' = [voted EXCEPT ![s] = {}]

Goto(s, label) ==
    /\ pc' = [pc EXCEPT ![s] = label]
    /\ UNCHANGED <<unit, active, voted>>

\* A rerun of the script with ?unit=u (lines 235-242).
Start(s, u) ==
    /\ pc[s] \in Terminal
    /\ pc' = [pc EXCEPT ![s] = "households"]
    /\ unit' = [unit EXCEPT ![s] = u]
    /\ UNCHANGED <<db, clock, active, voted>>

\* Faulty variant: the gate is consulted before the registry.
CheckGateFirst(s) ==
    /\ pc[s] = "households"
    /\ IF load_config("voting_open") # "True"
       THEN Return(s, "VotingClosed")
       ELSE IF households = {} \/ unit[s] \notin households
            THEN Return(s, "InvalidHousehold")
            ELSE Goto(s, "gate")
    /\ UNCHANGED <<db, clock>>

\* lines 244-247: households_df = load_data_from_db('households')
CheckHousehold(s) ==
    /\ pc[s] = "households"
    /\ IF households = {} \/ unit[s] \notin households
       THEN Return(s, "InvalidHousehold")
       ELSE Goto(s, "gate")
    /\ UNCHANGED <<db, clock>>

\* Faulty variant: an absent 'voting_open' key counts as open.
CheckGateAbsentOpen(s) ==
    /\ pc[s] = "gate"
    /\ IF load_config("voting_open") = "False"
       THEN Return(s, "VotingClosed")
       ELSE Goto(s, "deadline")
    /\ UNCHANGED <<db, clock>>

\* lines 249-254: voting_open = load_config('voting_open') == 'True'
CheckGate(s) ==
    /\ pc[s] = "gate"
    /\ LET voting_open_str == load_config("voting_open")
           voting_open == IF voting_open_str # NULL
                          THEN voting_open_str = "True" ELSE FALSE
       IN  IF ~ voting_open
           THEN Return(s, "VotingClosed")
           ELSE Goto(s, "deadline")
    /\ UNCHANGED <<db, clock>>

\* lines 256-267: end_time = load_config('end_time'); now > end_time rejects
CheckDeadline(s) ==
    /\ pc[s] = "deadline"
    /\ LET end_time_str == load_config("end_time")
       IN  IF end_time_str # <<>> /\ clock > end_time_str[1]
           THEN Return(s, "DeadlineExpired")
           ELSE Goto(s, "topics")
    /\ UNCHANGED <<db, clock>>

\* topics_df[topics_df['is_active'] == True]
ActiveRows(rows) == SelectSeq(rows, LAMBDA r : r.is_active)

\* lines 269-274: topics_df = load_data_from_db('topics'), the active rows
LoadTopics(s) ==
    /\ pc[s] = "topics"
    /\ LET active_topics == [hasId |-> topics.hasId, rows |-> ActiveRows(topics.rows)]
       IN  IF active_topics.rows = <<>>
           THEN Return(s, "NoTopics")
           ELSE /\ pc' = [pc EXCEPT ![s] = "votes"]
                /\ active' = [active EXCEPT ![s] = active_topics]
                /\ UNCHANGED <<unit, voted>>
    /\ UNCHANGED <<db, clock>>

\* lines 278-279: votes_df = load_data_from_db('votes'); the topic ids of the
\* rows of this unit
LoadVotes(s) ==
    /\ pc[s] = "votes"
    /\ voted' = [voted EXCEPT ![s] = { v.topic_id : v \in { w \in votes : w.unit = unit[s] } }]
    /\ pc' = [pc EXCEPT ![s] = "form"]
    /\ UNCHANGED <<db, clock, unit, active>>

\* lines 282-283: topic_row['id'] on a frame without an id column
LoopKeyError(s) ==
    /\ pc[s] = "form"
    /\ ~ active[s].hasId
    /\ Return(s, "KeyError")
    /\ UNCHANGED <<db, clock>>

\* lines 288-289: the topic of this run is in voted_topic_ids: no form
ShowVoted(s, i) ==
    /\ pc[s] = "form"
    /\ active[s].hasId
    /\ i \in DOMAIN active[s].rows
    /\ active[s].rows[i].id \in voted[s]
    /\ Return(s, "AlreadyVoted")
    /\ UNCHANGED <<db, clock>>

\* lines 290-297: the submit button of topic i was pressed with vote_option
Submit(s, i, vote_option, fault) ==
    /\ pc[s] = "form"
    /\ active[s].hasId
    /\ i \in DOMAIN active[s].rows
    /\ active[s].rows[i].id \notin voted[s]
    /\ LET r == record_vote_to_db(unit[s], active[s].rows[i].id, vote_option, clock, fault)
       IN  /\ votes' = r[2]
           /\ Return(s, IF r[1] THEN "Accepted" ELSE "Failed")
    /\ UNCHANGED <<households, topics, config, clock>>

\* ------------------------------------------------------------------- Next
Next ==
    \/ Tick
    \/ OpenVoting
    \/ CloseVoting
    \/ \E o \in DeadlineOptions : SaveEndTime(o)
    \/ \E df \in HouseholdFiles, f \in UploadFaults : UploadHouseholds(df, f)
    \/ \E df \in TopicFiles, f \in UploadFaults : UploadTopics(df, f)
    \/ \E s \in Sessions, u \in Codes : Start(s, u)
    \/ \E s \in Sessions : CheckHousehold(s)
    \/ \E s \in Sessions : CheckGate(s)
    \/ \E s \in Sessions : CheckDeadline(s)
    \/ \E s \in Sessions : LoadTopics(s)
    \/ \E s \in Sessions : LoadVotes(s)
    \/ \E s \in Sessions : LoopKeyError(s)
    \/ \E s \in Sessions, i \in 1..MaxTopics : ShowVoted(s, i)
    \/ \E s \in Sessions, i \in 1..MaxTopics, o \in VoteOptions, f \in Faults :
          Submit(s, i, o, f)

Spec == Init /\ [][Next]_vars

SpecConc == InitConc /\ [][Next]_vars

\* ------------------------------------- admin_dashboard statistics (429-474)
\* f"{x:.2f}" of x = n / d * 100, in hundredths of a percent: the nearest
\* hundredth of the exact quotient, a tie going to the even one.
Percent(n, d) ==
    LET x == n * 10000
        q == x \div d
        r == x % d
    IN  IF 2 * r > d THEN q + 1
        ELSE IF 2 * r = d /\ q % 2 = 1 THEN q + 1
        ELSE q

\* Faulty variant: the ratios are taken over the number of households.
TopicResultOverHouseholds(votes_df, total_households, topic_id) ==
    LET topic_votes == { v \in votes_df : v.topic_id = topic_id }
        voted_households == Cardinality({ v.unit : v \in topic_votes })
        agree == Cardinality({ v \in topic_votes : v.result = "agree" })
        disagree == Cardinality({ v \in topic_votes : v.result = "disagree" })
        total_votes == agree + disagree
    IN  [voted_households |-> voted_households,
         remaining |-> total_households - voted_households,
         agree |-> agree,
         disagree |-> disagree,
         total_votes |-> total_votes,
         ratios |-> IF total_votes > 0
                    THEN <<Percent(agree, total_households), Percent(disagree, total_households)>>
                    ELSE <<>>]

\* The body of the loop over topics_df, for the topic with id topic_id.
TopicResult(votes_df, total_households, topic_id) ==
    LET topic_votes == { v \in votes_df : v.topic_id = topic_id }
        voted_households == Cardinality({ v.unit : v \in topic_votes })
        agree == Cardinality({ v \in topic_votes : v.result = "agree" })
        disagree == Cardinality({ v \in topic_votes : v.result = "disagree" })
        total_votes == agree + disagree
    IN  [voted_households |-> voted_households,
         remaining |-> total_households - voted_households,
         agree |-> agree,
         disagree |-> disagree,
         total_votes |-> total_votes,
         ratios |-> IF total_votes > 0
                    THEN <<Percent(agree, total_votes), Percent(disagree, total_votes)>>
                    ELSE <<>>]

\* What the statistics section displays for the three frames it loaded:
\* nothing without households, nothing without votes or topics, a KeyError
\* on topics without an id column, else one result per topic row.
Statistics(households_df, topics_df, votes_df) ==
    IF households_df = {} THEN [shown |-> "NoHouseholds", rows |-> <<>>]
    ELSE IF votes_df = {} \/ topics_df.rows = <<>> THEN [shown |-> "NoData", rows |-> <<>>]
    ELSE IF ~ topics_df.hasId THEN [shown |-> "KeyError", rows |-> <<>>]
    ELSE [shown |-> "Results",
          rows |-> [i \in DOMAIN topics_df.rows |->
                      TopicResult(votes_df, Cardinality(households_df), topics_df.rows[i].id)]]

\* The statistics of the current database.
Dashboard == Statistics(households, topics, votes)

\* ================================================================= claims
TopicIds == 1..MaxTopics

\* the ids of the rows of a topics frame
RowIds(t) == { t.rows[i].id : i \in DOMAIN t.rows }

\* ---------------------------------------------------------------------- C1
\* C1: for every household h and topic t the votes table holds at most one
\* row for (h, t), whatever submissions were made, also from two sessions
\* whose runs interleave.
C1_AtMostOneBallot ==
    \A v \in votes, w \in votes :
        (v.unit = w.unit /\ v.topic_id = w.topic_id) => v = w

\* Session 1 was told its vote succeeded and the ballot is stored, while
\* session 2 holds a form for the same household and topic that it loaded
\* before that ballot was committed.
C1_Witness ==
    /\ 2 \in Sessions
    /\ pc[1] = "Accepted"
    /\ pc[2] = "form"
    /\ active[2].hasId
    /\ voted[2] = {}
    /\ \E v \in votes : v.unit = unit[2] /\ v.topic_id \in RowIds(active[2])

\* ---------------------------------------------------------------------- C2
\* C2: once a Ballot exists for (h, t), every later submission for (h, t) is
\* rejected and the Ballot's decision and timestamp never change: every row
\* of the votes table stays as it is.
C2_BallotNeverChanges ==
    [][\A v \in votes : v \in votes']_vars

\* ---------------------------------------------------------------------- C3
\* C3: a run of voter_page by a registered household that reads the gate
\* while 'voting_open' is not 'True' ends as VotingClosed, whatever the stored
\* deadline and topics, and writes no Ballot; and a change of the config
\* table changes no statistics.
C3_ClosedGateRejects ==
    [][ /\ \A s \in Sessions :
              (pc[s] = "gate" /\ pc'[s] # "gate" /\ config.voting_open # "True")
                  => (pc'[s] = "VotingClosed" /\ votes' = votes)
        /\ (config' # config => Dashboard' = Dashboard)
      ]_vars

\* A run was rejected as VotingClosed while the gate is closed, a deadline is
\* stored, an active topic exists and ballots are in the ledger.
C3_Witness ==
    /\ pc[1] = "VotingClosed"
    /\ config.voting_open = "False"
    /\ config.end_time # <<>>
    /\ ActiveRows(topics.rows) # <<>>
    /\ votes # {}
    /\ Dashboard.shown = "Results"

C6_VotedIsAgreePlusDisagree ==
    \A t \in TopicIds :
        LET r == TopicResult(votes, Cardinality(households), t)
        IN  r.voted_households = r.agree + r.disagree

\* A topic has one agree and one disagree ballot.
C6_Witness ==
    \E t \in TopicIds :
        LET r == TopicResult(votes, Cardinality(households), t)
        IN  r.agree = 1 /\ r.disagree = 1 /\ r.voted_households = 2

\* ---------------------------------------------------------------------- C7
\* C7: a run that tells the voter the vote succeeded has committed a ballot of
\* that household, on a topic of the form, with the time of the submission.
C7_SuccessMeansCommitted ==
    [][\A s \in Sessions :
        (pc[s] = "form" /\ pc'[s] = "Accepted") =>
            \E v \in votes' :
                /\ v.unit = unit[s]
                /\ v.topic_id \in RowIds(active[s])
                /\ v.time = clock
      ]_vars

\* ---------------------------------------------------------------------- C8
\* C8: after the topic list is replaced, the stored topics have the ids
\* 1..k in order and are active.
C8_SequentialIds ==
    [][topics' # topics =>
        /\ topics'.hasId
        /\ \A i \in DOMAIN topics'.rows :
              topics'.rows[i].id = i /\ topics'.rows[i].is_active
      ]_vars

C10_RemainingNotNegative ==
    Dashboard.shown = "Results" =>
        \A i \in DOMAIN Dashboard.rows : Dashboard.rows[i].remaining >= 0

====
